---- MODULE Spec2Model ----
(***************************************************************************)
(* ReDry proposal server (src/server.py): the proposal lifecycle kept in   *)
(* the proposals / signatures / payments / proposal_events tables and the  *)
(* files of PROPOSALS_DIR, driven by the HTTP handlers                     *)
(* generate_proposal_link, generate_pdf, send_proposal,                    *)
(* get_proposal_config, accept_proposal and payment_confirm.               *)
(*                                                                         *)
(* Spec     : requests are served one after the other; each action is one  *)
(*            whole handler.                                               *)
(* SpecConc : requests overlap; each action is one storage statement of a  *)
(*            handler (every connection is autocommit, get_db line 33).    *)
(* SpecDb   : requests are served one after the other and any db_* call of *)
(*            a request may raise (its except clause swallows the error).  *)
(* SpecPricing : generate_proposal_pdf (src/proposal_generator.py) computes *)
(*            the amounts and the option grid of one config.               *)
(***************************************************************************)
EXTENDS Integers, Sequences, FiniteSets, TLC

\* ------------------------------------------------------------------ bounds
\* Number of proposal ids that can be drawn (uuid4().hex[:12] in the code).
MaxProposals == 2
\* Number of requests served one after the other in one behaviour.
MaxClock == 4
\* Number of requests that may be started in the overlapping specification.
MaxReq == 2
\* Number of requests served in one behaviour of the storage-failure specification.
MaxDbReq == 3
\* Largest wet area, in square feet, and largest of the small rates, in mills
\* per square foot, that a config handed to the renderer holds.
MaxWetSF == 3
MaxRateMills == 40

Pids == 1..MaxProposals
\* Request bodies: the "email" of a send request and the clientEmail of a
\* config ("" is absent / empty), the "name" of an accept request.
Emails == {"", "client@x"}
Signers == {"Ann", "Bob"}
\* An accept request whose JSON body is null: request.get_json() returns None.
JsonNull == "null"
AcceptBodies == Signers \cup {JsonNull}

\* ------------------------------------------------------------- constants
\* DATABASE_URL is set: every db_* function runs its statement.
DATABASE_URL == TRUE
\* A timestamp column that was never written (SQL NULL).
Null == 0
ADMIN_EMAIL == "admin"
\* Option 2 (50/50) has two installments: paymentNumber 1 (deposit), 2 (balance).
InstallmentsB == 2

VARIABLES
    jsonFile,      \* PROPOSALS_DIR/{pid}.json : pid -> config, for the files that exist
    acceptedFile,  \* PROPOSALS_DIR/{pid}_accepted.json : pid -> acc
    proposals,     \* table proposals : id -> row
    signatures,    \* table signatures, in SERIAL id order
    payments,      \* table payments, in SERIAL id order
    proposal_events, \* table proposal_events, in SERIAL id order
    outbox,        \* the calls of send_email, in order
    clock,         \* wall clock: the last instant a request or statement read
    resp,          \* the response of the last request that completed
    reqs,          \* SpecConc: the requests started so far, each with its position
    render         \* SpecPricing: the document renderer, its config and what it computed

vars == <<jsonFile, acceptedFile, proposals, signatures, payments,
          proposal_events, outbox, clock, resp, reqs, render>>

db == <<proposals, signatures, payments, proposal_events>>

\* ---------------------------------------------------------------- storage
\* os.path.exists(os.path.join(PROPOSALS_DIR, f"{pid}.json"))
exists(files, pid) == pid \in DOMAIN files

\* with open(path, "w") as f: json.dump(value, f)   (creates or overwrites)
write_file(files, pid, value) ==
    [q \in DOMAIN files \cup {pid} |-> IF q = pid THEN value ELSE files[q]]

\* new_row with sent_at declared DEFAULT NOW() like created_at.
new_row_sent_default(config, status, now) ==
    [config |-> config, status |-> status, created_at |-> now,
     sent_at |-> now, viewed_at |-> Null, signed_at |-> Null, paid_at |-> Null]

\* The row INSERT INTO proposals creates: the columns not named take their
\* defaults (created_at NOW(), the four lifecycle timestamps NULL).
new_row(config, status, now) ==
    [config |-> config, status |-> status, created_at |-> now,
     sent_at |-> Null, viewed_at |-> Null, signed_at |-> Null, paid_at |-> Null]

\* INSERT ... ON CONFLICT (id) DO UPDATE SET config=%s, status=%s
db_store_proposal(tbl, pid, config, status, now) ==
    IF ~DATABASE_URL THEN tbl
    ELSE IF pid \in DOMAIN tbl
         THEN [tbl EXCEPT ![pid].config = config, ![pid].status = status]
         ELSE [q \in DOMAIN tbl \cup {pid} |->
                  IF q = pid THEN new_row(config, status, now) ELSE tbl[q]]

\* db_update_status taking its branch without ts_field: only the status is set.
db_update_status_no_ts(tbl, pid, status, ts_field, now) ==
    IF ~DATABASE_URL \/ pid \notin DOMAIN tbl THEN tbl
    ELSE [tbl EXCEPT ![pid].status = status]

\* db_update_status writing the whole row back, with an empty config.
db_update_status_resets_config(tbl, pid, status, ts_field, now) ==
    IF ~DATABASE_URL \/ pid \notin DOMAIN tbl THEN tbl
    ELSE [tbl EXCEPT ![pid] = [new_row([clientEmail |-> ""], status, tbl[pid].created_at)
                                  EXCEPT ![ts_field] = now]]

\* UPDATE proposals SET status=%s, {ts_field}=%s WHERE id=%s
\* (no row with that id: the statement updates nothing)
db_update_status(tbl, pid, status, ts_field, now) ==
    IF ~DATABASE_URL \/ pid \notin DOMAIN tbl THEN tbl
    ELSE [tbl EXCEPT ![pid] = [[@ EXCEPT !.status = status] EXCEPT ![ts_field] = now]]

\* proposal_id TEXT REFERENCES proposals(id): an INSERT for an id with no
\* proposals row raises, and the except clause of the db_* function only prints.
fk_ok(tbl, pid) == pid \in DOMAIN tbl

\* INSERT INTO proposal_events (proposal_id, event_type, details)
db_log_event(events, tbl, pid, event_type) ==
    IF ~DATABASE_URL \/ ~fk_ok(tbl, pid) THEN events
    ELSE Append(events, [proposal_id |-> pid, event_type |-> event_type])

\* INSERT INTO signatures (proposal_id, signer_name, ...)   (signed_at DEFAULT NOW())
db_store_signature(sigs, tbl, pid, sig_data, now) ==
    IF ~DATABASE_URL \/ ~fk_ok(tbl, pid) THEN sigs
    ELSE Append(sigs, [proposal_id |-> pid, signer_name |-> sig_data.signerName,
                       acceptedAt |-> sig_data.acceptedAt, signed_at |-> now])

\* INSERT INTO payments (proposal_id, option_num, payment_number, ...)
db_store_payment(pmts, tbl, pid, pmt_data, now) ==
    IF ~DATABASE_URL \/ ~fk_ok(tbl, pid) THEN pmts
    ELSE Append(pmts, [proposal_id |-> pid, payment_number |-> pmt_data.paymentNumber,
                       paid_at |-> now])

\* send_email(to_emails, subject, html_body): one call, whatever it returns
send_email(box, to, subject, pid) ==
    Append(box, [to |-> to, subject |-> subject, pid |-> pid])

Response(op, pid, code, body) == [op |-> op, pid |-> pid, code |-> code, body |-> body]

\* ------------------------------------------------------------------- Init
\* The document renderer when no generate_proposal_pdf call is under study.
Idle == [pc |-> "idle"]

Init ==
    /\ jsonFile = <<>>
    /\ acceptedFile = <<>>
    /\ proposals = <<>>
    /\ signatures = <<>>
    /\ payments = <<>>
    /\ proposal_events = <<>>
    /\ outbox = <<>>
    /\ clock = 0
    /\ resp = Response("none", 0, 0, "")
    /\ reqs = <<>>
    /\ render = Idle

\* uuid.uuid4().hex[:12]: an id that names no file and no row yet.  Ids are
\* opaque tokens, so the model draws the unused ids in increasing order.
fresh(pid) ==
    /\ ~exists(jsonFile, pid) /\ pid \notin DOMAIN proposals
    /\ \A q \in Pids : q < pid => exists(jsonFile, q)

\* The ids a request may name: those of the stored proposals, and one id that
\* names nothing yet (every unknown id is answered alike).
Targets == {pid \in Pids : exists(jsonFile, pid) \/ fresh(pid)}

\* ------------------------------------------------- handlers, one per action
\* Every request is served at its own instant of the wall clock, later than
\* the instants of the requests before it: now == clock + 1.

\* POST /api/generate-proposal-link.  pdfOk = FALSE: generate_proposal_pdf
\* raised, and the handler's except clause answers 500 before any file or row
\* is written.
generate_proposal_link(pid, config, pdfOk) ==
    LET now == clock + 1
        tbl == db_store_proposal(proposals, pid, config, "draft", now)
    IN  /\ fresh(pid)
        /\ clock' = now
        /\ IF ~pdfOk
           THEN /\ resp' = Response("generate_proposal_link", pid, 500, "error")
                /\ UNCHANGED <<jsonFile, db>>
           ELSE /\ jsonFile' = write_file(jsonFile, pid, config)
                /\ proposals' = tbl
                /\ proposal_events' = db_log_event(proposal_events, tbl, pid, "created")
                /\ resp' = Response("generate_proposal_link", pid, 200, "proposalId")
                /\ UNCHANGED <<signatures, payments>>
        /\ UNCHANGED <<acceptedFile, outbox, reqs, render>>

\* POST /api/generate-pdf: stores {pid}.pdf and {pid}.json and no proposals row.
generate_pdf(pid, config, pdfOk) ==
    /\ fresh(pid)
    /\ clock' = clock + 1
    /\ IF ~pdfOk
       THEN /\ resp' = Response("generate_pdf", pid, 500, "error")
            /\ UNCHANGED jsonFile
       ELSE /\ jsonFile' = write_file(jsonFile, pid, config)
            /\ resp' = Response("generate_pdf", pid, 200, "pdf")
    /\ UNCHANGED <<acceptedFile, db, outbox, reqs, render>>

\* to_email = data.get("email") or cfg.get("clientEmail", "")
to_email(email, cfg) == IF email # "" THEN email ELSE cfg.clientEmail

\* send_proposal without the test of success before it marks the proposal sent.
send_proposal_marks_always(pid, email, success) ==
    LET now == clock + 1 IN
    /\ clock' = now
    /\ IF ~exists(jsonFile, pid)
       THEN /\ resp' = Response("send_proposal", pid, 404, "Not found")
            /\ UNCHANGED <<jsonFile, acceptedFile, db, outbox, reqs, render>>
       ELSE IF to_email(email, jsonFile[pid]) = ""
       THEN /\ resp' = Response("send_proposal", pid, 400, "No email address provided")
            /\ UNCHANGED <<jsonFile, acceptedFile, db, outbox, reqs, render>>
       ELSE /\ proposals' = db_update_status(proposals, pid, "sent", "sent_at", now)
            /\ proposal_events' = db_log_event(proposal_events, proposals, pid, "sent")
            /\ outbox' = send_email(outbox, to_email(email, jsonFile[pid]), "ReDry Proposal", pid)
            /\ resp' = Response("send_proposal", pid, 200, IF success THEN "sent" ELSE "not sent")
            /\ UNCHANGED <<jsonFile, acceptedFile, signatures, payments, reqs, render>>

\* POST /api/proposal/<pid>/send.  success is what send_email returned for
\* the client's mail (False: no SENDGRID_API_KEY, or SendGrid raised).
send_proposal(pid, email, success) ==
    LET now == clock + 1 IN
    /\ clock' = now
    /\ IF ~exists(jsonFile, pid)
       THEN /\ resp' = Response("send_proposal", pid, 404, "Not found")
            /\ UNCHANGED <<jsonFile, acceptedFile, db, outbox, reqs, render>>
       ELSE IF to_email(email, jsonFile[pid]) = ""
       THEN /\ resp' = Response("send_proposal", pid, 400, "No email address provided")
            /\ UNCHANGED <<jsonFile, acceptedFile, db, outbox, reqs, render>>
       ELSE LET to == to_email(email, jsonFile[pid])
                box == send_email(outbox, to, "ReDry Proposal", pid)
            IN  IF success
                THEN /\ proposals' = db_update_status(proposals, pid, "sent", "sent_at", now)
                     /\ proposal_events' = db_log_event(proposal_events, proposals, pid, "sent")
                     /\ outbox' = send_email(box, ADMIN_EMAIL, "Proposal Sent", pid)
                     /\ resp' = Response("send_proposal", pid, 200, "sent")
                     /\ UNCHANGED <<jsonFile, acceptedFile, signatures, payments, reqs, render>>
                ELSE /\ outbox' = box
                     /\ resp' = Response("send_proposal", pid, 200, "not sent")
                     /\ UNCHANGED <<jsonFile, acceptedFile, db, reqs, render>>

\* GET /api/proposal/<pid>
get_proposal_config(pid) ==
    LET now == clock + 1 IN
    /\ clock' = now
    /\ IF ~exists(jsonFile, pid)
       THEN /\ resp' = Response("get_proposal_config", pid, 404, "Not found")
            /\ UNCHANGED <<jsonFile, acceptedFile, db, outbox, reqs, render>>
       ELSE /\ proposals' = db_update_status(proposals, pid, "viewed", "viewed_at", now)
            /\ proposal_events' = db_log_event(proposal_events, proposals, pid, "viewed")
            /\ resp' = Response("get_proposal_config", pid, 200, "config")
            /\ UNCHANGED <<jsonFile, acceptedFile, signatures, payments, outbox, reqs, render>>

\* sig_proof and acc as accept_proposal builds them from the request body
sig_proof(pid, name, now) == [proposalId |-> pid, signerName |-> name, acceptedAt |-> now]
accepted(name, now) == [name |-> name, acceptedAt |-> now]

\* The mails accept_proposal and payment_confirm send: one to ADMIN_EMAIL,
\* and one to the client when the config holds a clientEmail.
notify(box, cfg, adminSubject, clientSubject, pid) ==
    LET box1 == send_email(box, ADMIN_EMAIL, adminSubject, pid)
    IN  IF cfg.clientEmail # "" THEN send_email(box1, cfg.clientEmail, clientSubject, pid)
        ELSE box1

\* accept_proposal refusing to sign a proposal that is not sent or viewed.
accept_proposal_needs_view(pid, name) ==
    /\ clock' = clock + 1
    /\ resp' = Response("accept_proposal", pid,
                        IF exists(jsonFile, pid) THEN 409 ELSE 404, "error")
    /\ UNCHANGED <<jsonFile, acceptedFile, db, outbox, reqs, render>>

\* POST /api/proposal/<pid>/accept.  name is the body's "name"; with a null
\* body acc.get raises at line 393, before any write, and Flask answers 500.
accept_proposal(pid, name) ==
    LET now == clock + 1 IN
    /\ clock' = now
    /\ IF ~exists(jsonFile, pid)
       THEN /\ resp' = Response("accept_proposal", pid, 404, "Not found")
            /\ UNCHANGED <<jsonFile, acceptedFile, db, outbox, reqs, render>>
       ELSE IF name = JsonNull
       THEN /\ resp' = Response("accept_proposal", pid, 500, "error")
            /\ UNCHANGED <<jsonFile, acceptedFile, db, outbox, reqs, render>>
       ELSE /\ acceptedFile' = write_file(acceptedFile, pid, accepted(name, now))
            /\ signatures' = db_store_signature(signatures, proposals, pid,
                                                sig_proof(pid, name, now), now)
            /\ proposals' = db_update_status(proposals, pid, "signed", "signed_at", now)
            /\ proposal_events' = db_log_event(proposal_events, proposals, pid, "signed")
            /\ outbox' = notify(outbox, jsonFile[pid], "Proposal Accepted",
                                "Your Signed ReDry Proposal", pid)
            /\ resp' = Response("accept_proposal", pid, 200, "accepted")
            /\ UNCHANGED <<jsonFile, payments, reqs, render>>

\* payment_confirm sending the admin's mail before it looks for the config.
payment_confirm_notifies_first(pid, num) ==
    /\ clock' = clock + 1
    /\ outbox' = send_email(outbox, ADMIN_EMAIL, "Payment Received", pid)
    /\ resp' = Response("payment_confirm", pid,
                        IF exists(jsonFile, pid) THEN 200 ELSE 404,
                        IF exists(jsonFile, pid) THEN "confirmed" ELSE "Not found")
    /\ UNCHANGED <<jsonFile, acceptedFile, db, reqs, render>>

\* POST /api/proposal/<pid>/payment-confirm.  num is the body's "paymentNumber".
payment_confirm(pid, num) ==
    LET now == clock + 1 IN
    /\ clock' = now
    /\ IF ~exists(jsonFile, pid)
       THEN /\ resp' = Response("payment_confirm", pid, 404, "Not found")
            /\ UNCHANGED <<jsonFile, acceptedFile, db, outbox, reqs, render>>
       ELSE /\ payments' = db_store_payment(payments, proposals, pid,
                                            [paymentNumber |-> num], now)
            /\ proposals' = db_update_status(proposals, pid, "paid", "paid_at", now)
            /\ proposal_events' = db_log_event(proposal_events, proposals, pid, "payment")
            /\ outbox' = notify(outbox, jsonFile[pid], "Payment Received", "Payment Receipt", pid)
            /\ resp' = Response("payment_confirm", pid, 200, "confirmed")
            /\ UNCHANGED <<jsonFile, acceptedFile, signatures, reqs, render>>

Configs == [clientEmail : Emails]

\* A behaviour holds at most MaxClock requests.
Generate == clock < MaxClock /\ \E pid \in Pids, cfg \in Configs, ok \in BOOLEAN : generate_proposal_link(pid, cfg, ok)
GeneratePdf == clock < MaxClock /\ \E pid \in Pids, cfg \in Configs, ok \in BOOLEAN : generate_pdf(pid, cfg, ok)
Send == clock < MaxClock /\ \E pid \in Targets, e \in Emails, ok \in BOOLEAN : send_proposal(pid, e, ok)
View == clock < MaxClock /\ \E pid \in Targets : get_proposal_config(pid)
Accept == clock < MaxClock /\ \E pid \in Targets, name \in AcceptBodies : accept_proposal(pid, name)
Pay == clock < MaxClock /\ \E pid \in Targets, num \in 1..InstallmentsB : payment_confirm(pid, num)

Next == Generate \/ GeneratePdf \/ Send \/ View \/ Accept \/ Pay

Spec == Init /\ [][Next]_vars

\* ---------------------------------------------- overlapping requests
\* A request in flight: its handler, its arguments, the statement it runs
\* next (pc), the handler's local now and success, its response code, and the
\* requests that were in flight when it arrived (during).
Req(op, pid, arg, pc, now, code, during) ==
    [op |-> op, pid |-> pid, arg |-> arg, pc |-> pc, now |-> now,
     success |-> FALSE, code |-> code, during |-> during]

Ops == {"send_proposal", "get_proposal_config", "accept_proposal", "payment_confirm"}
Args(op) ==
    CASE op = "send_proposal" -> Emails
      [] op = "get_proposal_config" -> {""}
      [] op = "accept_proposal" -> AcceptBodies
      [] op = "payment_confirm" -> 1..InstallmentsB

\* The first statement with an effect, after the handler's checks.
first_pc(op) ==
    CASE op = "send_proposal" -> "mail"
      [] op = "get_proposal_config" -> "status"
      [] op = "accept_proposal" -> "file"
      [] op = "payment_confirm" -> "payment"
\* The arguments of the handler's db_update_status and db_log_event calls.
status_of(op) ==
    CASE op = "send_proposal" -> "sent" [] op = "get_proposal_config" -> "viewed"
      [] op = "accept_proposal" -> "signed" [] op = "payment_confirm" -> "paid"
ts_field_of(op) ==
    CASE op = "send_proposal" -> "sent_at" [] op = "get_proposal_config" -> "viewed_at"
      [] op = "accept_proposal" -> "signed_at" [] op = "payment_confirm" -> "paid_at"
event_of(op) ==
    CASE op = "send_proposal" -> "sent" [] op = "get_proposal_config" -> "viewed"
      [] op = "accept_proposal" -> "signed" [] op = "payment_confirm" -> "payment"
body_of(op, success) ==
    CASE op = "send_proposal" -> (IF success THEN "sent" ELSE "not sent")
      [] op = "get_proposal_config" -> "config"
      [] op = "accept_proposal" -> "accepted" [] op = "payment_confirm" -> "confirmed"

InFlight == {i \in 1..Len(reqs) : reqs[i].pc # "done"}

\* A request arrives: the handler's checks, up to its first write.
\* accept_proposal and payment_confirm read now before they write.
Begin(op, pid, arg) ==
    /\ Len(reqs) < MaxReq
    /\ IF ~exists(jsonFile, pid)
       THEN /\ reqs' = Append(reqs, Req(op, pid, arg, "done", Null, 404, InFlight))
            /\ resp' = Response(op, pid, 404, "Not found")
            /\ UNCHANGED clock
       ELSE IF op = "send_proposal" /\ to_email(arg, jsonFile[pid]) = ""
       THEN /\ reqs' = Append(reqs, Req(op, pid, arg, "done", Null, 400, InFlight))
            /\ resp' = Response(op, pid, 400, "No email address provided")
            /\ UNCHANGED clock
       ELSE IF op = "accept_proposal" /\ arg = JsonNull
       THEN /\ reqs' = Append(reqs, Req(op, pid, arg, "done", Null, 500, InFlight))
            /\ resp' = Response(op, pid, 500, "error")
            /\ UNCHANGED clock
       ELSE IF op \in {"accept_proposal", "payment_confirm"}
       THEN /\ clock' = clock + 1
            /\ reqs' = Append(reqs, Req(op, pid, arg, first_pc(op), clock + 1, 0, InFlight))
            /\ UNCHANGED resp
       ELSE /\ reqs' = Append(reqs, Req(op, pid, arg, first_pc(op), Null, 0, InFlight))
            /\ UNCHANGED <<resp, clock>>
    /\ UNCHANGED <<jsonFile, acceptedFile, db, outbox, render>>

At(i, pc) == i \in 1..Len(reqs) /\ reqs[i].pc = pc
Goto(i, pc) == reqs' = [reqs EXCEPT ![i].pc = pc]

\* accept_proposal line 404: json.dump(acc, f) into {pid}_accepted.json
WriteAccepted(i) ==
    /\ At(i, "file")
    /\ acceptedFile' = write_file(acceptedFile, reqs[i].pid, accepted(reqs[i].arg, reqs[i].now))
    /\ Goto(i, "signature")
    /\ UNCHANGED <<jsonFile, db, outbox, clock, resp, render>>

\* accept_proposal line 405
StoreSignature(i) ==
    /\ At(i, "signature")
    /\ signatures' = db_store_signature(signatures, proposals, reqs[i].pid,
                        sig_proof(reqs[i].pid, reqs[i].arg, reqs[i].now), clock)
    /\ Goto(i, "status")
    /\ UNCHANGED <<jsonFile, acceptedFile, proposals, payments, proposal_events, outbox, clock, resp, render>>

\* payment_confirm lines 503-505
StorePayment(i) ==
    /\ At(i, "payment")
    /\ payments' = db_store_payment(payments, proposals, reqs[i].pid,
                        [paymentNumber |-> reqs[i].arg], clock)
    /\ Goto(i, "status")
    /\ UNCHANGED <<jsonFile, acceptedFile, proposals, signatures, proposal_events, outbox, clock, resp, render>>

\* send_proposal lines 351-352: the client's mail and the test of its result
SendClientMail(i, success) ==
    /\ At(i, "mail")
    /\ outbox' = send_email(outbox, to_email(reqs[i].arg, jsonFile[reqs[i].pid]),
                            "ReDry Proposal", reqs[i].pid)
    /\ reqs' = [reqs EXCEPT ![i].pc = IF success THEN "status" ELSE "respond",
                            ![i].success = success]
    /\ UNCHANGED <<jsonFile, acceptedFile, db, clock, resp, render>>

\* db_update_status as each handler calls it (lines 353, 365, 406, 506); the
\* function reads now itself (line 77).
UpdateStatus(i) ==
    /\ At(i, "status")
    /\ clock' = clock + 1
    /\ proposals' = db_update_status(proposals, reqs[i].pid, status_of(reqs[i].op),
                                     ts_field_of(reqs[i].op), clock + 1)
    /\ Goto(i, "event")
    /\ UNCHANGED <<jsonFile, acceptedFile, signatures, payments, proposal_events, outbox, resp, render>>

\* db_log_event as each handler calls it (lines 354, 366, 407, 507)
LogEvent(i) ==
    /\ At(i, "event")
    /\ proposal_events' = db_log_event(proposal_events, proposals, reqs[i].pid, event_of(reqs[i].op))
    /\ Goto(i, "respond")
    /\ UNCHANGED <<jsonFile, acceptedFile, proposals, signatures, payments, outbox, clock, resp, render>>

\* The rest of the handler: its notification mails and its response.
Respond(i) ==
    /\ At(i, "respond")
    /\ LET r == reqs[i] IN
       /\ outbox' =
            CASE r.op = "send_proposal" ->
                   (IF r.success THEN send_email(outbox, ADMIN_EMAIL, "Proposal Sent", r.pid)
                    ELSE outbox)
              [] r.op = "get_proposal_config" -> outbox
              [] r.op = "accept_proposal" ->
                   notify(outbox, jsonFile[r.pid], "Proposal Accepted", "Your Signed ReDry Proposal", r.pid)
              [] r.op = "payment_confirm" ->
                   notify(outbox, jsonFile[r.pid], "Payment Received", "Payment Receipt", r.pid)
       /\ resp' = Response(r.op, r.pid, 200, body_of(r.op, r.success))
       /\ reqs' = [reqs EXCEPT ![i].pc = "done", ![i].code = 200]
    /\ UNCHANGED <<jsonFile, acceptedFile, db, clock, render>>

Arrive == \E op \in Ops, pid \in Targets : \E arg \in Args(op) : Begin(op, pid, arg)
Create == \E pid \in Pids, cfg \in Configs : generate_proposal_link(pid, cfg, TRUE)
DoWriteAccepted == \E i \in 1..MaxReq : WriteAccepted(i)
DoStoreSignature == \E i \in 1..MaxReq : StoreSignature(i)
DoStorePayment == \E i \in 1..MaxReq : StorePayment(i)
DoSendClientMail == \E i \in 1..MaxReq, success \in BOOLEAN : SendClientMail(i, success)
DoUpdateStatus == \E i \in 1..MaxReq : UpdateStatus(i)
DoLogEvent == \E i \in 1..MaxReq : LogEvent(i)
DoRespond == \E i \in 1..MaxReq : Respond(i)

NextConc ==
    \/ Create \/ Arrive \/ DoWriteAccepted \/ DoStoreSignature \/ DoStorePayment
    \/ DoSendClientMail \/ DoUpdateStatus \/ DoLogEvent \/ DoRespond

SpecConc == Init /\ [][NextConc]_vars

\* ------------------------------------------------------ storage failures
\* The db_* calls of one request whose statement (or connection) raises.
\* Every db_* function wraps its statement in try / except Exception: print.
Stmts == {"store_proposal", "update_status", "log_event", "store_signature", "store_payment"}

\* try: <statement> except Exception as e: print(...)
\* The table is as the statement leaves it, or as it was when it raised.
try_db(raised, after, before) == IF raised THEN before ELSE after

\* generate_proposal_link, its db_* calls raising for the statements in down.
generate_proposal_link_db(pid, config, down) ==
    LET now == clock + 1
        tbl == try_db("store_proposal" \in down,
                      db_store_proposal(proposals, pid, config, "draft", now), proposals)
    IN  /\ fresh(pid)
        /\ clock' = now
        /\ jsonFile' = write_file(jsonFile, pid, config)
        /\ proposals' = tbl
        /\ proposal_events' = try_db("log_event" \in down,
                                     db_log_event(proposal_events, tbl, pid, "created"),
                                     proposal_events)
        /\ resp' = Response("generate_proposal_link", pid, 200, "proposalId")
        /\ UNCHANGED <<acceptedFile, signatures, payments, outbox, reqs, render>>

\* send_proposal after a delivered client mail, its db_* calls raising for down.
send_proposal_db(pid, email, down) ==
    LET now == clock + 1
        to == to_email(email, jsonFile[pid])
    IN  /\ exists(jsonFile, pid) /\ to # ""
        /\ clock' = now
        /\ proposals' = try_db("update_status" \in down,
                               db_update_status(proposals, pid, "sent", "sent_at", now), proposals)
        /\ proposal_events' = try_db("log_event" \in down,
                                     db_log_event(proposal_events, proposals, pid, "sent"),
                                     proposal_events)
        /\ outbox' = send_email(send_email(outbox, to, "ReDry Proposal", pid),
                                ADMIN_EMAIL, "Proposal Sent", pid)
        /\ resp' = Response("send_proposal", pid, 200, "sent")
        /\ UNCHANGED <<jsonFile, acceptedFile, signatures, payments, reqs, render>>

\* get_proposal_config with db_log_event letting its exception through.
get_proposal_config_db_raises(pid, down) ==
    LET now == clock + 1 IN
    /\ exists(jsonFile, pid)
    /\ clock' = now
    /\ proposals' = try_db("update_status" \in down,
                           db_update_status(proposals, pid, "viewed", "viewed_at", now), proposals)
    /\ proposal_events' = try_db("log_event" \in down,
                                 db_log_event(proposal_events, proposals, pid, "viewed"),
                                 proposal_events)
    /\ resp' = Response("get_proposal_config", pid,
                        IF "log_event" \in down THEN 500 ELSE 200,
                        IF "log_event" \in down THEN "error" ELSE "config")
    /\ UNCHANGED <<jsonFile, acceptedFile, signatures, payments, outbox, reqs, render>>

\* get_proposal_config, its db_* calls raising for the statements in down.
get_proposal_config_db(pid, down) ==
    LET now == clock + 1 IN
    /\ exists(jsonFile, pid)
    /\ clock' = now
    /\ proposals' = try_db("update_status" \in down,
                           db_update_status(proposals, pid, "viewed", "viewed_at", now), proposals)
    /\ proposal_events' = try_db("log_event" \in down,
                                 db_log_event(proposal_events, proposals, pid, "viewed"),
                                 proposal_events)
    /\ resp' = Response("get_proposal_config", pid, 200, "config")
    /\ UNCHANGED <<jsonFile, acceptedFile, signatures, payments, outbox, reqs, render>>

\* accept_proposal with a JSON object body, its db_* calls raising for down.
accept_proposal_db(pid, name, down) ==
    LET now == clock + 1 IN
    /\ exists(jsonFile, pid)
    /\ clock' = now
    /\ acceptedFile' = write_file(acceptedFile, pid, accepted(name, now))
    /\ signatures' = try_db("store_signature" \in down,
                            db_store_signature(signatures, proposals, pid,
                                               sig_proof(pid, name, now), now),
                            signatures)
    /\ proposals' = try_db("update_status" \in down,
                           db_update_status(proposals, pid, "signed", "signed_at", now), proposals)
    /\ proposal_events' = try_db("log_event" \in down,
                                 db_log_event(proposal_events, proposals, pid, "signed"),
                                 proposal_events)
    /\ outbox' = notify(outbox, jsonFile[pid], "Proposal Accepted",
                        "Your Signed ReDry Proposal", pid)
    /\ resp' = Response("accept_proposal", pid, 200, "accepted")
    /\ UNCHANGED <<jsonFile, payments, reqs, render>>

\* payment_confirm, its db_* calls raising for the statements in down.
payment_confirm_db(pid, num, down) ==
    LET now == clock + 1 IN
    /\ exists(jsonFile, pid)
    /\ clock' = now
    /\ payments' = try_db("store_payment" \in down,
                          db_store_payment(payments, proposals, pid,
                                           [paymentNumber |-> num], now),
                          payments)
    /\ proposals' = try_db("update_status" \in down,
                           db_update_status(proposals, pid, "paid", "paid_at", now), proposals)
    /\ proposal_events' = try_db("log_event" \in down,
                                 db_log_event(proposal_events, proposals, pid, "payment"),
                                 proposal_events)
    /\ outbox' = notify(outbox, jsonFile[pid], "Payment Received", "Payment Receipt", pid)
    /\ resp' = Response("payment_confirm", pid, 200, "confirmed")
    /\ UNCHANGED <<jsonFile, acceptedFile, signatures, reqs, render>>

\* The statements each handler runs.
CreateStmts == {"store_proposal", "log_event"}
SendStmts == {"update_status", "log_event"}
ViewStmts == {"update_status", "log_event"}
AcceptStmts == {"store_signature", "update_status", "log_event"}
PayStmts == {"store_payment", "update_status", "log_event"}

CreateDb == clock < MaxDbReq /\ \E pid \in Pids, cfg \in Configs :
               \E down \in SUBSET CreateStmts : generate_proposal_link_db(pid, cfg, down)
SendDb == clock < MaxDbReq /\ \E pid \in Pids, e \in Emails :
               \E down \in SUBSET SendStmts : send_proposal_db(pid, e, down)
ViewDb == clock < MaxDbReq /\ \E pid \in Pids :
               \E down \in SUBSET ViewStmts : get_proposal_config_db(pid, down)
AcceptDb == clock < MaxDbReq /\ \E pid \in Pids, name \in Signers :
               \E down \in SUBSET AcceptStmts : accept_proposal_db(pid, name, down)
PayDb == clock < MaxDbReq /\ \E pid \in Pids, num \in 1..InstallmentsB :
               \E down \in SUBSET PayStmts : payment_confirm_db(pid, num, down)

NextDb == CreateDb \/ SendDb \/ ViewDb \/ AcceptDb \/ PayDb

SpecDb == Init /\ [][NextDb]_vars

\* ---------------------------------------------------------------- pricing
\* generate_proposal_pdf (src/proposal_generator.py) as far as it computes
\* amounts.  Units: wetSF in whole square feet (int(float(...))), ratePSF in
\* mills (1/1000 dollar), tax rates in basis points (1/10000), amounts that
\* the code rounds with round(x, 2) in cents.
RatesMills == (0..MaxRateMills) \cup {1875, 2000}
TaxRates == {0, 825, 1000, 4000}

\* A value of the config JSON: a key that is absent, a string that is not a
\* number (s: "" or "abc"), a number n, or a string that float() parses to n.
\* n is in the unit of its key: wetSF in tenths of a square foot, ratePSF in
\* mills, taxRate and taxRateOverride in basis points, scanCost in cents,
\* numScans a count.
Absent == [t |-> "absent", s |-> "", n |-> 0]
Str(s) == [t |-> "str", s |-> s, n |-> 0]
Num(n) == [t |-> "num", s |-> "", n |-> n]
NumStr(n) == [t |-> "numstr", s |-> "", n |-> n]

\* config.get(key, default)
get(config, key, default) == IF config[key].t = "absent" THEN default ELSE config[key]
\* bool(v): 0 and "" are falsy; every other number and string is truthy
truthy(v) ==
    CASE v.t = "num" -> v.n # 0
      [] v.t = "numstr" -> TRUE
      [] v.t = "str" -> v.s # ""
      [] v.t = "absent" -> FALSE
\* a or b
or(a, b) == IF truthy(a) THEN a ELSE b
\* float(v) returns for a number and for a numeric string; it raises
\* ValueError for "" and for "abc".
can_float(v) == v.t \in {"num", "numstr"}
float(v) == v.n
\* int(x) for wetSF: tenths of a square foot to whole square feet, towards zero.
int(tenths) == IF tenths >= 0 THEN tenths \div 10 ELSE -((-tenths) \div 10)

\* The defaults of the config.get calls, in the units above.
DefaultWetSF == Num(0)
DefaultRatePSF == Num(2000)
DefaultScanCost == Num(450000)
DefaultNumScans == Num(4)

\* The configs whose amounts are all numbers: they exercise the arithmetic.
ArithConfigs ==
    [wetSF : {Num(10 * w) : w \in 0..MaxWetSF}, ratePSF : {Num(r) : r \in RatesMills},
     taxRateOverride : {Absent}, taxRate : {Num(t) : t \in TaxRates},
     scanCost : {Absent}, numScans : {Absent}, waiveScans : {FALSE},
     showOption0 : BOOLEAN, showOption1 : BOOLEAN, showOption2 : BOOLEAN]

\* The configs that exercise the parsing: absent, empty, unparseable, zero,
\* negative and fractional values.
ParseConfigs ==
    [wetSF : {Absent, Str(""), Str("abc"), Num(-10), Num(15), Num(20)},
     ratePSF : {Absent, Str(""), Num(0), Num(-5), Num(31)},
     taxRateOverride : {Absent, Str(""), Str("abc"), Num(0), NumStr(0), Num(700)},
     taxRate : {Absent, Num(825), Num(-825)},
     scanCost : {Absent, Num(0), Num(-100), Num(12345)},
     numScans : {Absent, Num(0), Num(3), Num(-1)},
     waiveScans : BOOLEAN,
     showOption0 : {TRUE}, showOption1 : {TRUE}, showOption2 : {TRUE}]

\* wetSF=11600, ratePSF=2.00, taxRate=0.0925, scanCost=4500, numScans=4
ReferenceConfig ==
    [wetSF |-> Num(116000), ratePSF |-> Num(2000), taxRateOverride |-> Absent,
     taxRate |-> Num(925), scanCost |-> Num(450000), numScans |-> Num(4),
     waiveScans |-> FALSE,
     showOption0 |-> TRUE, showOption1 |-> TRUE, showOption2 |-> TRUE]

PricingConfigs == ArithConfigs \cup ParseConfigs \cup {ReferenceConfig}

\* The integers nearest to n / d.  round() is applied to a binary double: away
\* from a tie it returns the nearest cent; at an exact decimal tie the
\* representation error of the double decides, so either neighbour can result.
Nearest(n, d) ==
    LET q == n \div d
        r == n % d
    IN  IF 2 * r < d THEN {q} ELSE IF 2 * r > d THEN {q + 1} ELSE {q, q + 1}

\* round2 cutting the amount off at the cent instead of rounding it.
round2_floor(a, b, d) == {(a \div d) * b + ((a % d) * b) \div d}

\* round(a * b / d, 2) in cents, the product split so that it stays in range.
round2(a, b, d) == {(a \div d) * b + x : x \in Nearest((a % d) * b, d)}

\* std_balance taken as a second half of the total instead of the remainder.
std_balance_half(std_total, std_deposit) == std_deposit

\* std_balance = round(std_total - std_deposit, 2): a difference of two cent
\* amounts, which rounds to itself.
std_balance(std_total, std_deposit) == std_total - std_deposit

\* ez_final taken as 50% of the total, truncated, instead of the remainder.
ez_final_half(ez_total, ez_deposit, ez_install) == ez_total \div 2

\* ez_final = round(ez_total - ez_deposit - ez_install, 2)
ez_final(ez_total, ez_deposit, ez_install) == ez_total - ez_deposit - ez_install

\* pf_savings = round(vent_subtotal - pf_total, 2)
pf_savings(vent_subtotal, pf_total) == vent_subtotal - pf_total

\* One column of the option grid: the dict appended to visible.
Option(name, total, pmts) == [name |-> name, total |-> total, payments |-> pmts]
PayInFull == "Pay in Full"
FiftyFifty == "50/50"
EasyStart == "Let's Get Going!"

\* The option grid without the len(visible) == 0 branch.
visible_no_fallback(show_option_0, show_option_1, show_option_2, optA, optB, optC) ==
    (IF show_option_0 THEN <<optA>> ELSE <<>>)
       \o (IF show_option_1 THEN <<optB>> ELSE <<>>)
       \o (IF show_option_2 THEN <<optC>> ELSE <<>>)

\* visible = []; one append per option shown; the 50/50 option when none is.
visible(show_option_0, show_option_1, show_option_2, optA, optB, optC) ==
    LET v == (IF show_option_0 THEN <<optA>> ELSE <<>>)
                \o (IF show_option_1 THEN <<optB>> ELSE <<>>)
                \o (IF show_option_2 THEN <<optC>> ELSE <<>>)
    IN  IF Len(v) = 0 THEN <<optB>> ELSE v

\* The value float() is applied to for the tax rate:
\* config.get("taxRateOverride", "") or config.get("taxRate", "") or 0
tax_rate_source(config) ==
    or(or(get(config, "taxRateOverride", Str("")), get(config, "taxRate", Str(""))), Num(0))

\* scan_total = 0 if waive_scans else round(scan_cost * num_scans, 2)
scan_total(waive_scans, scan_cost, num_scans) ==
    IF waive_scans THEN 0 ELSE scan_cost * num_scans

\* Nothing computed yet.
Nothing == <<>>
Raised == "raised"

\* generate_proposal_pdf(config): the parsing of lines 155-168, the amounts of
\* lines 190-214 and the option grid of lines 549-588, one \E per round(..., 2)
\* of the code.  A float() that raises ends the call: the caller sees the
\* exception.
generate_proposal_pdf ==
    /\ render.pc = "config"
    /\ LET config == render.config
           wetSF == get(config, "wetSF", DefaultWetSF)
           ratePSF == get(config, "ratePSF", DefaultRatePSF)
           scanCost == get(config, "scanCost", DefaultScanCost)
           numScans == get(config, "numScans", DefaultNumScans)
       IN
       IF ~(can_float(wetSF) /\ can_float(ratePSF) /\ can_float(scanCost) /\ can_float(numScans))
       THEN render' = [render EXCEPT !.pc = Raised]
       ELSE
       LET wet_sf == int(float(wetSF))
           rate_psf == float(ratePSF)
           scan_cost == float(scanCost)
           num_scans == float(numScans)
           waive_scans == config.waiveScans
           tax_rate_val == IF can_float(tax_rate_source(config))
                           THEN float(tax_rate_source(config)) ELSE 0
           vent_system_total == wet_sf * rate_psf
       IN  \E tax_amount \in round2(vent_system_total, tax_rate_val, 100000) :
           \E vent_subtotal \in Nearest(vent_system_total + 10 * tax_amount, 10) :
           \E pf_vent_discounted \in round2(vent_system_total, 97, 1000) :
           \E pf_tax \in round2(pf_vent_discounted, tax_rate_val, 10000) :
           \E std_deposit \in Nearest(vent_subtotal, 2) :
           \E ez_vent_adjusted \in round2(vent_system_total, 103, 1000) :
           \E ez_tax \in round2(ez_vent_adjusted, tax_rate_val, 10000) :
           LET pf_total == pf_vent_discounted + pf_tax
               std_total == vent_subtotal
               ez_total == ez_vent_adjusted + ez_tax
           IN  \E ez_deposit \in round2(ez_total, 10, 100) :
               \E ez_install \in round2(ez_total, 40, 100) :
               LET bal == std_balance(std_total, std_deposit)
                   fin == ez_final(ez_total, ez_deposit, ez_install)
               IN  render' =
                     [render EXCEPT
                      !.pc = "done",
                      !.out = [wet_sf |-> wet_sf, rate_psf |-> rate_psf,
                               scan_cost |-> scan_cost, num_scans |-> num_scans,
                               tax_rate_val |-> tax_rate_val,
                               vent_system_total |-> vent_system_total,
                               tax_amount |-> tax_amount,
                               vent_subtotal |-> vent_subtotal,
                               scan_total |-> scan_total(waive_scans, scan_cost, num_scans),
                               pf_vent_discounted |-> pf_vent_discounted,
                               pf_tax |-> pf_tax, pf_total |-> pf_total,
                               pf_savings |-> pf_savings(vent_subtotal, pf_total),
                               std_total |-> std_total, std_deposit |-> std_deposit,
                               std_balance |-> bal,
                               ez_vent_adjusted |-> ez_vent_adjusted, ez_tax |-> ez_tax,
                               ez_total |-> ez_total, ez_deposit |-> ez_deposit,
                               ez_install |-> ez_install, ez_final |-> fin,
                               visible |->
                                 visible(config.showOption0, config.showOption1,
                                         config.showOption2,
                                         Option(PayInFull, pf_total, <<pf_total>>),
                                         Option(FiftyFifty, std_total, <<std_deposit, bal>>),
                                         Option(EasyStart, ez_total,
                                                <<ez_deposit, ez_install, fin>>))]]
    /\ UNCHANGED <<jsonFile, acceptedFile, db, outbox, clock, resp, reqs>>

\* total_scans for the summary with the waiver ignored.
total_scans_unwaived(waive_scans, scan_cost, num_scans) == scan_cost * num_scans

\* total_scans = 0 if waive_scans else round(scan_cost * num_scans, 2)
total_scans(waive_scans, scan_cost, num_scans) ==
    IF waive_scans THEN 0 ELSE scan_cost * num_scans

\* send_proposal, lines 259-297: the pricing of the email summary and of its
\* teasers, for the stored config of proposal pid.  wet_sf stays in tenths of
\* a square foot, so vent_total is in 1/10000 dollar.  A float() or int()
\* that raises ends the request with Flask's 500.
email_summary(pid) ==
    /\ exists(jsonFile, pid)
    /\ render.spc = "none"
    /\ LET cfg == jsonFile[pid]
           wetSF == or(get(cfg, "wetSF", DefaultWetSF), DefaultWetSF)
           ratePSF == or(get(cfg, "ratePSF", DefaultRatePSF), DefaultRatePSF)
           taxRate == tax_rate_source(cfg)
           scanCost == or(get(cfg, "scanCost", DefaultScanCost), DefaultScanCost)
           numScans == or(get(cfg, "numScans", DefaultNumScans), DefaultNumScans)
       IN
       IF ~(can_float(wetSF) /\ can_float(ratePSF) /\ can_float(taxRate)
              /\ can_float(scanCost) /\ can_float(numScans))
       THEN render' = [render EXCEPT !.spc = Raised]
       ELSE
       LET wet_sf == float(wetSF)
           rate == float(ratePSF)
           vent_total == wet_sf * rate
           tax_rate_val == float(taxRate)
           scan_cost == float(scanCost)
           num_scans == float(numScans)
           waive_scans == cfg.waiveScans
       IN  \E tax_amount \in round2(vent_total, tax_rate_val, 1000000) :
           \E subtotal \in Nearest(vent_total + 100 * tax_amount, 100) :
           LET scans == total_scans(waive_scans, scan_cost, num_scans)
               grand_total == subtotal + scans
           IN  \E deposit_50 \in Nearest(grand_total, 2) :
               \E discount_total \in round2(grand_total, 97, 100) :
               \E easy_start \in round2(grand_total, 103, 1000) :
               render' =
                 [render EXCEPT
                  !.spc = "done",
                  !.summary = [wet_sf |-> wet_sf, rate |-> rate, vent_total |-> vent_total,
                               tax_rate_val |-> tax_rate_val, tax_amount |-> tax_amount,
                               subtotal |-> subtotal, scan_cost |-> scan_cost,
                               num_scans |-> num_scans, total_scans |-> scans,
                               grand_total |-> grand_total, deposit_50 |-> deposit_50,
                               teasers |->
                                 (IF cfg.showOption0
                                  THEN <<[name |-> PayInFull, amount |-> discount_total]>>
                                  ELSE <<>>)
                                 \o (IF cfg.showOption2
                                     THEN <<[name |-> EasyStart, amount |-> easy_start]>>
                                     ELSE <<>>)]]
    /\ UNCHANGED <<jsonFile, acceptedFile, db, outbox, clock, resp, reqs>>

\* The renderer is handed one config; nothing is stored yet.
InitPricing ==
    /\ jsonFile = <<>> /\ acceptedFile = <<>>
    /\ proposals = <<>> /\ signatures = <<>> /\ payments = <<>> /\ proposal_events = <<>>
    /\ outbox = <<>> /\ clock = 0 /\ resp = Response("none", 0, 0, "")  /\ reqs = <<>>
    /\ render \in [pc : {"config"}, config : PricingConfigs, out : {Nothing},
                   spc : {"none"}, summary : {Nothing}]

\* The call generate_proposal_pdf(config) of generate_proposal_link.
Render == generate_proposal_pdf

\* generate_proposal_link once generate_proposal_pdf has returned or raised.
Link == /\ render.pc \in {"done", Raised}
        /\ clock = 0
        /\ \E pid \in Pids : generate_proposal_link(pid, render.config, render.pc = "done")

\* send_proposal's summary of a stored config.
Summary == \E pid \in Pids : email_summary(pid)

NextPricing == Render \/ Link \/ Summary

SpecPricing == InitPricing /\ [][NextPricing]_vars

\* ------------------------------------------------- the lifecycle properties
HasRow(pid) == pid \in DOMAIN proposals
\* The ordering draft < sent < viewed < signed < paid of the lifecycle.
Rank(status) ==
    CASE status = "draft" -> 0 [] status = "sent" -> 1 [] status = "viewed" -> 2
      [] status = "signed" -> 3 [] status = "paid" -> 4
\* The proposal_events rows of one proposal, in insertion order.
EventsOf(events, pid) == SelectSeq(events, LAMBDA e : e.proposal_id = pid)
SignaturesOf(sigs, pid) == SelectSeq(sigs, LAMBDA r : r.proposal_id = pid)
PaymentsOf(pmts, pid) == SelectSeq(pmts, LAMBDA r : r.proposal_id = pid)
Event(pid, event_type) == [proposal_id |-> pid, event_type |-> event_type]

\* C1: the stored status of a proposal never moves to a lower value in the
\* ordering draft < sent < viewed < signed < paid, whatever operation runs.
C1_StatusForwardOnly ==
    [][\A pid \in Pids : HasRow(pid) =>
          Rank(proposals'[pid].status) >= Rank(proposals[pid].status)]_vars

\* C2: opening a proposal whose status is signed or paid appends a "viewed"
\* event and leaves the status signed or paid respectively.
C2_ViewKeepsSignedOrPaid ==
    [][\A pid \in Pids :
          (get_proposal_config(pid) /\ HasRow(pid)
             /\ proposals[pid].status \in {"signed", "paid"})
          => /\ proposal_events' = Append(proposal_events, Event(pid, "viewed"))
             /\ proposals'[pid].status = proposals[pid].status]_vars

\* C3: accept_proposal for a proposal that already has a signature is rejected
\* with a Conflict error and leaves the SignatureRecord, the accepted-file and
\* signed_at of the first call unchanged.
C3_SecondSignRejected ==
    [][\A pid \in Pids, name \in Signers :
          (accept_proposal(pid, name) /\ HasRow(pid)
             /\ Len(SignaturesOf(signatures, pid)) > 0)
          => /\ resp'.code = 409
             /\ signatures' = signatures
             /\ acceptedFile' = acceptedFile
             /\ proposals'[pid].signed_at = proposals[pid].signed_at]_vars

\* C4: a later payment confirmation of a proposal whose paid_at is set keeps
\* paid_at, keeps status paid, and adds one PaymentRecord and one "payment" event.
C4_PaidAtWrittenOnce ==
    [][\A pid \in Pids, num \in 1..InstallmentsB :
          (payment_confirm(pid, num) /\ HasRow(pid) /\ proposals[pid].paid_at # Null)
          => /\ proposals'[pid].paid_at = proposals[pid].paid_at
             /\ proposals'[pid].status = "paid"
             /\ Len(PaymentsOf(payments', pid)) = Len(PaymentsOf(payments, pid)) + 1
             /\ proposal_events' = Append(proposal_events, Event(pid, "payment"))]_vars

\* C5: a repeat view (viewed_at already set) leaves viewed_at at the instant
\* of the first view and appends one more "viewed" event.
C5_ViewedAtFirstWriteWins ==
    [][\A pid \in Pids :
          (get_proposal_config(pid) /\ HasRow(pid) /\ proposals[pid].viewed_at # Null)
          => /\ proposals'[pid].viewed_at = proposals[pid].viewed_at
             /\ proposal_events' = Append(proposal_events, Event(pid, "viewed"))]_vars

\* C6: payment_confirm for a proposal that was never signed (status draft, sent
\* or viewed, no signature) is rejected, or changes neither status nor paid_at.
C6_PaidOnlyFromSigned ==
    [][\A pid \in Pids, num \in 1..InstallmentsB :
          (payment_confirm(pid, num) /\ HasRow(pid)
             /\ proposals[pid].status \in {"draft", "sent", "viewed"}
             /\ Len(SignaturesOf(signatures, pid)) = 0)
          => \/ resp'.code # 200
             \/ /\ proposals'[pid].status = proposals[pid].status
                /\ proposals'[pid].paid_at = proposals[pid].paid_at]_vars

\* C7: a successful re-send (sent_at already set) keeps sent_at at the value of
\* the first successful send and still appends a "sent" event.
C7_ResendKeepsSentAt ==
    [][\A pid \in Pids, email \in Emails :
          (send_proposal(pid, email, TRUE) /\ HasRow(pid) /\ resp'.body = "sent"
             /\ proposals[pid].sent_at # Null)
          => /\ proposals'[pid].sent_at = proposals[pid].sent_at
             /\ proposal_events' = Append(proposal_events, Event(pid, "sent"))]_vars

\* C9: a proposal newly created by generate_proposal_link has status draft,
\* sent_at, viewed_at, signed_at and paid_at all null, and exactly one event,
\* of type "created".
C9_FreshProposalIsDraft ==
    [][\A pid \in Pids, cfg \in Configs :
          generate_proposal_link(pid, cfg, TRUE)
          => /\ pid \in DOMAIN proposals'
             /\ proposals'[pid].status = "draft"
             /\ proposals'[pid].sent_at = Null /\ proposals'[pid].viewed_at = Null
             /\ proposals'[pid].signed_at = Null /\ proposals'[pid].paid_at = Null
             /\ EventsOf(proposal_events', pid) = <<Event(pid, "created")>>]_vars

\* A proposal has just been created by generate_proposal_link.
C9_Witness ==
    \E pid \in Pids :
       /\ resp = Response("generate_proposal_link", pid, 200, "proposalId")
       /\ HasRow(pid) /\ proposals[pid].status = "draft"

\* C10: accept_proposal on a proposal whose status is draft or sent succeeds,
\* sets status signed and signed_at, persists the SignatureRecord and appends a
\* "signed" event.
C10_SignWithoutView ==
    [][\A pid \in Pids, name \in Signers :
          (/\ HasRow(pid) /\ proposals[pid].status \in {"draft", "sent"}
           /\ accept_proposal(pid, name))
          => /\ resp' = Response("accept_proposal", pid, 200, "accepted")
             /\ proposals'[pid].status = "signed"
             /\ proposals'[pid].signed_at = clock' /\ proposals'[pid].signed_at # Null
             /\ Len(signatures') = Len(signatures) + 1
             /\ signatures'[Len(signatures')].proposal_id = pid
             /\ signatures'[Len(signatures')].signer_name = name
             /\ SubSeq(signatures', 1, Len(signatures)) = signatures
             /\ proposal_events' = Append(proposal_events, Event(pid, "signed"))]_vars

\* A proposal that was never viewed (no "viewed" event) has been signed.
C10_Witness ==
    \E pid \in Pids :
       /\ resp = Response("accept_proposal", pid, 200, "accepted")
       /\ HasRow(pid) /\ proposals[pid].status = "signed"
       /\ \A i \in 1..Len(proposal_events) :
             proposal_events[i].proposal_id = pid => proposal_events[i].event_type # "viewed"
       /\ Len(SignaturesOf(signatures, pid)) = 1

\* C8: two accept_proposal requests for the same proposal that overlap cannot
\* both succeed: once both have finished, exactly one SignatureRecord is
\* stored and exactly one of the two was answered 200.
C8_ConcurrentSignOnce ==
    \A i, j \in 1..Len(reqs) :
       (/\ i \in reqs[j].during
        /\ reqs[i].op = "accept_proposal" /\ reqs[j].op = "accept_proposal"
        /\ reqs[i].pid = reqs[j].pid /\ HasRow(reqs[i].pid)
        /\ reqs[i].pc = "done" /\ reqs[j].pc = "done")
       => /\ Len(SignaturesOf(signatures, reqs[i].pid)) = 1
          /\ (reqs[i].code = 200) # (reqs[j].code = 200)

\* ------------------------------------------- events, errors and the config
\* C11: the event log is append-only and complete: every step leaves the log
\* an extension of what it was, and each successful view, sign and
\* payment-confirm request appends exactly one entry of the matching type
\* (viewed, signed, payment) for its proposal id.
C11_EventLogCompleteAppendOnly ==
    [][/\ Len(proposal_events') >= Len(proposal_events)
       /\ SubSeq(proposal_events', 1, Len(proposal_events)) = proposal_events
       /\ \A pid \in Pids :
            /\ (get_proposal_config(pid) /\ resp'.code = 200)
                 => proposal_events' = Append(proposal_events, Event(pid, "viewed"))
            /\ (\E name \in Signers : accept_proposal(pid, name) /\ resp'.code = 200)
                 => proposal_events' = Append(proposal_events, Event(pid, "signed"))
            /\ (\E num \in 1..InstallmentsB : payment_confirm(pid, num) /\ resp'.code = 200)
                 => proposal_events' = Append(proposal_events, Event(pid, "payment"))]_vars

\* C12: send_proposal, get_proposal_config, accept_proposal and payment_confirm
\* called with an id that has no stored proposal answer 404 Not found and
\* write nothing: no table, no file and no mail changes.
C12_UnknownIdNoSideEffect ==
    [][\A pid \in Pids :
          (/\ ~exists(jsonFile, pid)
           /\ \/ \E e \in Emails, ok \in BOOLEAN : send_proposal(pid, e, ok)
              \/ get_proposal_config(pid)
              \/ \E name \in AcceptBodies : accept_proposal(pid, name)
              \/ \E num \in 1..InstallmentsB : payment_confirm(pid, num))
          => /\ resp'.code = 404 /\ resp'.body = "Not found" /\ resp'.pid = pid
             /\ UNCHANGED <<jsonFile, acceptedFile, db, outbox>>]_vars

\* An unknown id has just been answered, while another proposal is stored.
C12_Witness ==
    /\ resp.code = 404 /\ resp.op \in Ops
    /\ ~exists(jsonFile, resp.pid)
    /\ \E q \in Pids : HasRow(q) /\ Len(EventsOf(proposal_events, q)) > 1

\* C15: once a proposal is created, no operation changes its stored config:
\* neither the config snapshot file nor the config column of its row.
C15_ConfigImmutable ==
    [][\A pid \in Pids :
          /\ exists(jsonFile, pid)
               => exists(jsonFile', pid) /\ jsonFile'[pid] = jsonFile[pid]
          /\ HasRow(pid)
               => pid \in DOMAIN proposals' /\ proposals'[pid].config = proposals[pid].config]_vars

\* A proposal with a non-empty config has been sent or viewed, then signed
\* and paid, and its file and its row still hold the config it was created with.
C15_Witness ==
    \E pid \in Pids :
       /\ HasRow(pid) /\ proposals[pid].status = "paid"
       /\ proposals[pid].signed_at # Null
       /\ proposals[pid].sent_at # Null \/ proposals[pid].viewed_at # Null
       /\ proposals[pid].config = jsonFile[pid] /\ jsonFile[pid].clientEmail # ""

\* C13: a failure while writing the event, the signature or the payment
\* record does not stop the status update of the same view, sign or pay
\* request, and does not reach the caller: the request answers 200 and, when
\* the status statement itself does not raise, the row holds the new status
\* and timestamp.
C13_SecondaryFailureSwallowed ==
    [][\A pid \in Pids :
          /\ \A down \in SUBSET ViewStmts :
               (/\ "log_event" \in down /\ resp'.op = "get_proposal_config" /\ resp'.pid = pid
                /\ get_proposal_config_db(pid, down))
               => /\ resp' = Response("get_proposal_config", pid, 200, "config")
                  /\ (HasRow(pid) /\ "update_status" \notin down)
                       => /\ proposals'[pid].status = "viewed"
                          /\ proposals'[pid].viewed_at = clock'
          /\ \A down \in SUBSET AcceptStmts :
               (/\ down \cap {"log_event", "store_signature"} # {}
                /\ resp'.op = "accept_proposal" /\ resp'.pid = pid
                /\ \E name \in Signers : accept_proposal_db(pid, name, down))
               => /\ resp' = Response("accept_proposal", pid, 200, "accepted")
                  /\ (HasRow(pid) /\ "update_status" \notin down)
                       => /\ proposals'[pid].status = "signed"
                          /\ proposals'[pid].signed_at = clock'
          /\ \A down \in SUBSET PayStmts :
               (/\ down \cap {"log_event", "store_payment"} # {}
                /\ resp'.op = "payment_confirm" /\ resp'.pid = pid
                /\ \E num \in 1..InstallmentsB : payment_confirm_db(pid, num, down))
               => /\ resp' = Response("payment_confirm", pid, 200, "confirmed")
                  /\ (HasRow(pid) /\ "update_status" \notin down)
                       => /\ proposals'[pid].status = "paid"
                          /\ proposals'[pid].paid_at = clock']_vars

\* A sign request has completed whose signature and event writes both failed:
\* the row is signed, and no signature row and no "signed" event exist.
C13_Witness ==
    \E pid \in Pids :
       /\ resp = Response("accept_proposal", pid, 200, "accepted")
       /\ HasRow(pid) /\ proposals[pid].status = "signed"
       /\ proposals[pid].signed_at = clock
       /\ Len(SignaturesOf(signatures, pid)) = 0
       /\ \A i \in 1..Len(proposal_events) : proposal_events[i] # Event(pid, "signed")

\* C14: a storage failure during the status write of a send, view, sign or
\* pay request is surfaced: the request does not report success.
C14_StatusFailureSurfaced ==
    [][\A pid \in Pids :
          (/\ HasRow(pid)
           /\ \/ \E down \in SUBSET SendStmts, e \in Emails :
                    "update_status" \in down /\ send_proposal_db(pid, e, down)
              \/ \E down \in SUBSET ViewStmts :
                    "update_status" \in down /\ get_proposal_config_db(pid, down)
              \/ \E down \in SUBSET AcceptStmts, name \in Signers :
                    "update_status" \in down /\ accept_proposal_db(pid, name, down)
              \/ \E down \in SUBSET PayStmts, num \in 1..InstallmentsB :
                    "update_status" \in down /\ payment_confirm_db(pid, num, down))
          => /\ resp'.code # 200
             /\ resp'.body \notin {"sent", "config", "accepted", "confirmed"}]_vars

\* ----------------------------------------------------------------- pricing
Done == render.pc = "done"

\* C16: the 50/50 installments sum to the total to the cent:
\* std_deposit + std_balance = std_total, where std_deposit is half the total
\* rounded to cents.
C16_OptionBSumsExactly ==
    Done => /\ render.out.std_deposit + render.out.std_balance = render.out.std_total
            /\ render.out.std_deposit \in Nearest(render.out.std_total, 2)

\* A total with an odd number of cents has been split.
C16_Witness ==
    Done /\ render.out.std_total % 2 = 1 /\ render.out.std_total > 1

\* C17: the Easy-Start installments sum to the total to the cent:
\* ez_deposit + ez_install + ez_final = ez_total, the deposit 10% and the
\* install payment 40% of the total, each rounded to cents.
C17_OptionCSumsExactly ==
    Done => /\ render.out.ez_deposit + render.out.ez_install + render.out.ez_final
                 = render.out.ez_total
            /\ render.out.ez_deposit \in Nearest(render.out.ez_total, 10)
            /\ render.out.ez_install \in Nearest(4 * render.out.ez_total, 10)

\* A total of which 10% and 40% are not whole cents has been split.
C17_Witness ==
    Done /\ render.out.ez_total > 10 /\ render.out.ez_total % 10 \notin {0, 5}

\* C18: the Pay-in-Full total never exceeds the lease subtotal, and the
\* savings shown equal vent_subtotal - pf_total, so they are never negative.
C18_PayInFullNeverDearer ==
    Done => /\ render.out.pf_total <= render.out.vent_subtotal
            /\ render.out.pf_savings = render.out.vent_subtotal - render.out.pf_total
            /\ render.out.pf_savings >= 0

\* C19: the Easy-Start total is never lower than the lease subtotal.
C19_EasyStartNeverCheaper ==
    Done => render.out.ez_total >= render.out.vent_subtotal

\* C20: with showOption0, showOption1 and showOption2 all false the grid holds
\* exactly the 50/50 option with std_total and its two installments; otherwise
\* it holds exactly the options marked visible, in the order Pay in Full,
\* 50/50, Easy Start.
C20_ForcedFallback ==
    Done =>
      LET c == render.config
          o == render.out
          shown(name) == \/ name = PayInFull /\ c.showOption0
                         \/ name = FiftyFifty /\ c.showOption1
                         \/ name = EasyStart /\ c.showOption2
          names == [k \in 1..Len(o.visible) |-> o.visible[k].name]
      IN  /\ IF ~c.showOption0 /\ ~c.showOption1 /\ ~c.showOption2
             THEN names = <<FiftyFifty>>
             ELSE names = SelectSeq(<<PayInFull, FiftyFifty, EasyStart>>, shown)
          /\ \A k \in 1..Len(o.visible) :
               /\ o.visible[k].name = PayInFull
                    => o.visible[k] = Option(PayInFull, o.pf_total, <<o.pf_total>>)
               /\ o.visible[k].name = FiftyFifty
                    => o.visible[k] = Option(FiftyFifty, o.std_total,
                                             <<o.std_deposit, o.std_balance>>)
               /\ o.visible[k].name = EasyStart
                    => o.visible[k] = Option(EasyStart, o.ez_total,
                                             <<o.ez_deposit, o.ez_install, o.ez_final>>)

\* A config with no option marked visible has been rendered with a non-zero total.
C20_Witness ==
    /\ Done /\ render.out.std_total > 0
    /\ ~render.config.showOption0 /\ ~render.config.showOption1 /\ ~render.config.showOption2
    /\ Len(render.out.visible) = 1

\* ------------------------------------------------ status, delivery, overlap
\* C27: in every reachable state, a row whose status is sent, viewed, signed
\* or paid has the timestamp of the same name set.
C27_StatusHasItsTimestamp ==
    \A pid \in DOMAIN proposals :
       /\ proposals[pid].status = "sent" => proposals[pid].sent_at # Null
       /\ proposals[pid].status = "viewed" => proposals[pid].viewed_at # Null
       /\ proposals[pid].status = "signed" => proposals[pid].signed_at # Null
       /\ proposals[pid].status = "paid" => proposals[pid].paid_at # Null

\* A proposal has left draft, and another transition has overwritten its status.
C27_Witness ==
    \E pid \in DOMAIN proposals :
       /\ proposals[pid].status = "viewed" /\ proposals[pid].viewed_at # Null
       /\ proposals[pid].signed_at # Null

\* C28: send_proposal sets status sent, stamps sent_at and appends a "sent"
\* event only when the client's mail was delivered; with no recipient, or a
\* delivery that was skipped or failed, the tables are unchanged and the
\* response does not report sent.
C28_SentOnlyAfterDelivery ==
    [][\A pid \in Pids, email \in Emails, success \in BOOLEAN :
          (exists(jsonFile, pid) /\ send_proposal(pid, email, success))
          => IF success /\ to_email(email, jsonFile[pid]) # ""
             THEN /\ resp' = Response("send_proposal", pid, 200, "sent")
                  /\ HasRow(pid)
                       => /\ proposals'[pid].status = "sent"
                          /\ proposals'[pid].sent_at = clock'
                          /\ proposal_events' = Append(proposal_events, Event(pid, "sent"))
             ELSE /\ resp'.body # "sent"
                  /\ UNCHANGED db]_vars

\* A send whose delivery failed has been answered for a proposal that has a
\* recipient, and the row is still a draft that was never sent.
C28_Witness ==
    \E pid \in Pids :
       /\ resp = Response("send_proposal", pid, 200, "not sent")
       /\ HasRow(pid) /\ proposals[pid].status = "draft" /\ proposals[pid].sent_at = Null
       /\ Len(outbox) > 0 /\ outbox[Len(outbox)].pid = pid

\* The status that goes with a lifecycle event.
StatusOfEvent(event_type) == IF event_type = "payment" THEN "paid" ELSE event_type

\* C30: once all overlapping requests have finished, the stored status of a
\* proposal is the one written by the request whose event was appended last:
\* it agrees with the last sent / viewed / signed / payment event of the log.
C30_StatusAgreesWithLastEvent ==
    (Len(reqs) > 0 /\ InFlight = {})
    => \A pid \in DOMAIN proposals :
          LET log == SelectSeq(EventsOf(proposal_events, pid),
                               LAMBDA e : e.event_type # "created")
          IN  Len(log) > 0 => proposals[pid].status = StatusOfEvent(log[Len(log)].event_type)

\* ------------------------------------------ scans, inputs and the summary
Summarised == render.spc = "done"
\* A value that is absent, empty or not a number.
Unparsed(v) == v.t \in {"absent", "str"}
Negative(v) == can_float(v) /\ v.n < 0

\* C21: scan charges never enter the option arithmetic: in the option grid
\* and in the email summary and its teasers, every deposit, discounted or
\* surcharged amount is computed from the lease base or the lease subtotal,
\* without the scan total.
C21_ScansOutsideOptionMath ==
    /\ Done =>
         /\ render.out.std_total = render.out.vent_subtotal
         /\ render.out.std_deposit \in Nearest(render.out.vent_subtotal, 2)
         /\ render.out.pf_vent_discounted \in round2(render.out.vent_system_total, 97, 1000)
         /\ render.out.ez_vent_adjusted \in round2(render.out.vent_system_total, 103, 1000)
    /\ Summarised =>
         /\ render.summary.deposit_50 \in Nearest(render.summary.subtotal, 2)
         /\ \A k \in 1..Len(render.summary.teasers) :
              LET t == render.summary.teasers[k]
              IN  /\ t.name = PayInFull => t.amount \in round2(render.summary.subtotal, 97, 100)
                  /\ t.name = EasyStart => t.amount \in round2(render.summary.subtotal, 103, 1000)

\* C22: for wetSF=11600, ratePSF=2.00, taxRate=0.0925, scanCost=4500,
\* numScans=4, waiveScans=false the amounts are, in cents: base 2320000, tax
\* 214600, lease subtotal 2534600; 50/50 1267300 + 1267300; Pay in Full base
\* 2250400, tax 208162, total 2458562, savings 76038; Easy Start base 2389600,
\* tax 221038, total 2610638, installments 261064 / 1044255 / 1305319; scan
\* total 1800000 and grand total 4334600.
C22_ReferenceVector ==
    render.config = ReferenceConfig =>
      /\ render.pc # "config" =>
           /\ Done
           /\ render.out.vent_system_total = 23200000
           /\ render.out.tax_amount = 214600 /\ render.out.vent_subtotal = 2534600
           /\ render.out.std_deposit = 1267300 /\ render.out.std_balance = 1267300
           /\ render.out.pf_vent_discounted = 2250400 /\ render.out.pf_tax = 208162
           /\ render.out.pf_total = 2458562 /\ render.out.pf_savings = 76038
           /\ render.out.ez_vent_adjusted = 2389600 /\ render.out.ez_tax = 221038
           /\ render.out.ez_total = 2610638 /\ render.out.ez_deposit = 261064
           /\ render.out.ez_install = 1044255 /\ render.out.ez_final = 1305319
           /\ render.out.scan_total = 1800000
      /\ render.spc # "none" =>
           /\ Summarised
           /\ render.summary.vent_total = 232000000
           /\ render.summary.tax_amount = 214600 /\ render.summary.subtotal = 2534600
           /\ render.summary.total_scans = 1800000
           /\ render.summary.grand_total = 4334600

\* The reference config has been rendered, stored and summarised.
C22_Witness ==
    render.config = ReferenceConfig /\ Done /\ Summarised

\* C23: whenever waiveScans is true the scan total is 0, whatever the scan
\* cost and count, and the grand total equals the lease subtotal.
C23_ScanWaiver ==
    render.config.waiveScans =>
      /\ Done => render.out.scan_total = 0
      /\ Summarised => /\ render.summary.total_scans = 0
                       /\ render.summary.grand_total = render.summary.subtotal

\* Scans with a non-zero cost and count have been waived, in the PDF and in
\* the summary.
C23_Witness ==
    /\ render.config.waiveScans /\ Done /\ Summarised
    /\ render.out.scan_cost * render.out.num_scans > 0
    /\ render.summary.scan_cost * render.summary.num_scans > 0
    /\ render.summary.subtotal # 0

\* C24: a config whose wet area, rate, scan cost, scan count or tax rate is
\* negative is rejected with a validation error: generate_proposal_link
\* answers with a client error and stores no snapshot, no row and no event.
C24_NegativeInputsRejected ==
    [][\A pid \in Pids :
          (/\ \E key \in {"wetSF", "ratePSF", "scanCost", "numScans",
                          "taxRate", "taxRateOverride"} : Negative(render.config[key])
           /\ render.pc \in {"done", Raised}
           /\ generate_proposal_link(pid, render.config, render.pc = "done"))
          => /\ resp'.code \in {400, 422}
             /\ UNCHANGED <<jsonFile, db>>]_vars

\* C25: when wetSF, ratePSF, scanCost or numScans is absent, empty or not a
\* number, pricing does not raise and proceeds with area 0, rate 2.00, scan
\* cost 4500 and scan count 4 for that input, in generate_proposal_pdf and in
\* the summary of send_proposal.
C25_DefaultsForBadNumbers ==
    LET c == render.config IN
    /\ (render.pc # "config"
          /\ \E key \in {"wetSF", "ratePSF", "scanCost", "numScans"} : Unparsed(c[key]))
         => /\ Done
            /\ Unparsed(c.wetSF) => render.out.wet_sf = 0
            /\ Unparsed(c.ratePSF) => render.out.rate_psf = 2000
            /\ Unparsed(c.scanCost) => render.out.scan_cost = 450000
            /\ Unparsed(c.numScans) => render.out.num_scans = 4
    /\ (render.spc # "none" /\ can_float(tax_rate_source(c))
          /\ \E key \in {"wetSF", "ratePSF", "scanCost", "numScans"} : Unparsed(c[key]))
         => /\ Summarised
            /\ Unparsed(c.wetSF) => render.summary.wet_sf = 0
            /\ Unparsed(c.ratePSF) => render.summary.rate = 2000
            /\ Unparsed(c.scanCost) => render.summary.scan_cost = 450000
            /\ Unparsed(c.numScans) => render.summary.num_scans = 4

\* C26: the effective tax rate is the override whenever the override is
\* present and non-empty (an override of zero included), otherwise the
\* state-derived rate taxRate, otherwise zero.
C26_TaxRateSelection ==
    LET o == render.config.taxRateOverride
        r == render.config.taxRate
        expected == IF can_float(o) THEN o.n ELSE IF can_float(r) THEN r.n ELSE 0
    IN  (can_float(o) \/ o = Absent \/ o = Str(""))
        => /\ Done => render.out.tax_rate_val = expected
           /\ Summarised => render.summary.tax_rate_val = expected

\* C29: for a stored config the summary of send_proposal and
\* generate_proposal_pdf compute the same lease base, tax amount, lease
\* subtotal and scan total.  (Where the model leaves a half cent open, the
\* summary's amount has to be one the renderer's arithmetic allows.)
C29_SummaryAgreesWithPdf ==
    (Done /\ Summarised)
    => /\ render.summary.vent_total = 10 * render.out.vent_system_total
       /\ render.summary.tax_amount
            \in round2(render.out.vent_system_total, render.out.tax_rate_val, 100000)
       /\ render.summary.subtotal
            \in Nearest(render.out.vent_system_total + 10 * render.summary.tax_amount, 10)
       /\ render.summary.total_scans = render.out.scan_total

====
